---- MODULE Spec2Model ----
(***************************************************************************)
(* The brainflow python binding (board_shim.py) together with the native   *)
(* BoardController core it calls.  The binding is modelled from its source;*)
(* the native core (session state machine, acquisition loop, SampleBuffer) *)
(* is not part of the python package and is modelled from its description. *)
(***************************************************************************)
EXTENDS Integers, Sequences, FiniteSets, TLC

\* ---------------------------------------------------------------- bounds
\* Largest buffer capacity a caller requests in start_stream.
MaxCap == 2
\* Largest number of samples the acquisition loop pushes in one session.
MaxPush == 2

\* ------------------------------------------------------- program constants
CYTHON == [board_id |-> 0, fs_hz |-> 250, num_eeg_channels |-> 8, package_length |-> 12]

\* Consecutive transient read/decode failures the loop absorbs.
FailureThreshold == 1

STATUS_OK == "STATUS_OK"
UNSUPPORTED_BOARD_ERROR == "UNSUPPORTED_BOARD_ERROR"
INVALID_STATE_ERROR == "InvalidStateError"
CONNECTION_ERROR == "ConnectionError"
VALUE_ERROR == "ValueError"

\* Execution contexts (threads) of the calling program, each with its own
\* BoardShim object.
Contexts == {"A", "B"}
\* board ids a caller passes: 0 is CYTHON, 1 is not in the table.
BoardIds == {0, 1}
\* num_samples arguments of get_current_board_data.
CurrentArgs == -1 .. (MaxCap + 1)

KnownBoards == {CYTHON.board_id}
ActiveStates == {"Prepared", "Streaming", "Stopped", "Failed"}
DataStates == {"Streaming", "Stopped"}
ReleasableStates == {"Stopped", "Prepared", "Failed"}

Min(a, b) == IF a < b THEN a ELSE b

\* ------------------------------------------------------------ numpy helpers
\* numpy.zeros (n)
Zeros(n) == [i \in 1 .. n |-> 0]

\* arr.reshape (rows, width): row-major
Reshape(arr, rows, width) ==
    [r \in 1 .. rows |-> [j \in 1 .. width |-> arr[(r - 1) * width + j]]]

\* A bug that forgets the timestamp column.
ColumnStackNoTime(mat, col) == mat

\* numpy.column_stack ((mat, col)): col becomes the last column
ColumnStack(mat, col) == [r \in 1 .. Len(mat) |-> Append(mat[r], col[r])]

\* arr[0:n]
Slice(arr, n) == [i \in 1 .. n |-> arr[i]]

\* --------------------------------------------------------- native samples
\* Field j of the decoded package of the k-th sample of a session, and its
\* timestamp.  Samples are numbered from 1, so no field of a real sample and
\* no timestamp is 0.
PackageValue(k, j) == k * 100 + j
SampleTs(k) == k

\* The native core copies `samples` into the caller's flat row-major buffer.
NativeWriteData(arr, samples, width) ==
    [i \in 1 .. Len(arr) |->
        IF i <= Len(samples) * width
        THEN PackageValue(samples[((i - 1) \div width) + 1], ((i - 1) % width) + 1)
        ELSE arr[i]]

NativeWriteTime(arr, samples) ==
    [i \in 1 .. Len(arr) |-> IF i <= Len(samples) THEN SampleTs(samples[i]) ELSE arr[i]]

\* A buffer that never evicts.
PushNoEvict(b, cap, s) == Append(b, s)

\* SampleBuffer.push: evict the oldest entry of a full buffer, then append.
Push(b, cap, s) == IF Len(b) >= cap THEN Append(Tail(b), s) ELSE Append(b, s)

\* SampleBuffer.drain_latest (n): the n most recent, oldest first; none for n <= 0.
DrainLatest(b, n) ==
    IF n <= 0 THEN << >>
    ELSE SubSeq(b, Len(b) - Min(n, Len(b)) + 1, Len(b))

\* ------------------------------------------------------- native lifecycle
\* A core that replaces the active session.
NativePrepareReplacing(st, board_id, openOk) ==
    IF board_id \notin KnownBoards THEN [status |-> UNSUPPORTED_BOARD_ERROR, state |-> st]
    ELSE IF openOk THEN [status |-> STATUS_OK, state |-> "Prepared"]
    ELSE [status |-> CONNECTION_ERROR, state |-> "Failed"]

\* prepare_session (board_id, port): status and the session state after it.
NativePrepareSession(st, board_id, openOk) ==
    IF st \in ActiveStates THEN [status |-> INVALID_STATE_ERROR, state |-> st]
    ELSE IF board_id \notin KnownBoards THEN [status |-> UNSUPPORTED_BOARD_ERROR, state |-> st]
    ELSE IF openOk THEN [status |-> STATUS_OK, state |-> "Prepared"]
    ELSE [status |-> CONNECTION_ERROR, state |-> "Failed"]

NativeStartStatus(st) == IF st = "Prepared" THEN STATUS_OK ELSE INVALID_STATE_ERROR
NativeStopStatus(st) == IF st = "Streaming" THEN STATUS_OK ELSE INVALID_STATE_ERROR
NativeReleaseStatus(st) == IF st \in ReleasableStates THEN STATUS_OK ELSE INVALID_STATE_ERROR
NativeDataStatus(st) == IF st \in DataStates THEN STATUS_OK ELSE INVALID_STATE_ERROR

\* A stop_stream that returns without joining the loop.
JoinedNoWait(lp) == TRUE

\* stop_stream returns once the acquisition loop has terminated.
Joined(lp) == lp = "exited"

\* ------------------------------------------------------------ the binding
\* A binding that never looks at the status code.
CheckResIgnoring(res) == STATUS_OK

\* `if res != STATUS_OK: raise BrainFlowError (..., res)`: what the caller sees.
CheckRes(res) == res

\* A constructor that accepts every board id.
BoardShim_init_any(board_id) ==
    [status |-> STATUS_OK,
     obj |-> [constructed |-> TRUE, board_id |-> board_id,
              package_length |-> CYTHON.package_length, fs_hz |-> CYTHON.fs_hz,
              num_eeg_channels |-> CYTHON.num_eeg_channels]]

NoShim == [constructed |-> FALSE, board_id |-> 0, package_length |-> 0,
           fs_hz |-> 0, num_eeg_channels |-> 0]

\* BoardShim.__init__
BoardShim_init(board_id) ==
    IF board_id = CYTHON.board_id
    THEN [status |-> STATUS_OK,
          obj |-> [constructed |-> TRUE, board_id |-> board_id,
                   package_length |-> CYTHON.package_length, fs_hz |-> CYTHON.fs_hz,
                   num_eeg_channels |-> CYTHON.num_eeg_channels]]
    ELSE [status |-> UNSUPPORTED_BOARD_ERROR, obj |-> NoShim]

\* BoardControllerDLL.get_instance: the library is loaded once.
get_instance(inst) == IF inst = "None" THEN "dll" ELSE inst

\* A get_board_data that asks the core for one sample fewer than it counted.
FetchArgShort(n) == IF n > 0 THEN n - 1 ELSE 0

\* The count get_board_data passes to the core: the data_size it read before.
FetchArg(n) == n

\* ------------------------------------------------------------------ state
VARIABLES
    instance,   \* BoardControllerDLL.__instance: "None" or "dll"
    shim,       \* each context's BoardShim object
    pc,         \* where each context is: "idle", "gbd_fetch", "stopping"
    data_size,  \* get_board_data's local data_size, per context
    prev,       \* "drained" when the context's last completed call was get_board_data
    quiet,      \* no sample pushed since the context's get_board_data began
    last,       \* the most recently completed call and what it returned
    state,      \* native session state
    capacity,   \* native SampleBuffer capacity
    buf,        \* native SampleBuffer, oldest first
    stopFlag,   \* native stop signal
    loop,       \* acquisition loop: "none", "check", "inflight", "exited"
    failures,   \* consecutive transient failures
    owner,      \* history: the context whose prepare_session made the session
    pushed,     \* history: samples pushed in this session, in order
    delivered,  \* history: rows handed out by get_board_data, by timestamp
    evicted     \* history: samples evicted by push

pyVars == <<instance, shim, pc, data_size, prev, quiet, last>>
nativeVars == <<state, capacity, buf, stopFlag, loop, failures>>
histVars == <<pushed, delivered, evicted>>
vars == <<pyVars, nativeVars, owner, histVars>>

NoDelivery == [k \in 0 .. MaxPush |-> 0]

NoCall ==
    [op |-> "none", by |-> "none", status |-> STATUS_OK, rows |-> 0, table |-> << >>,
     dataLen |-> 0, timeLen |-> 0, count |-> 0, seq |-> "plain"]

Init ==
    /\ instance = "None"
    /\ shim = [c \in Contexts |-> NoShim]
    /\ pc = [c \in Contexts |-> "idle"]
    /\ data_size = [c \in Contexts |-> 0]
    /\ prev = [c \in Contexts |-> "other"]
    /\ quiet = [c \in Contexts |-> FALSE]
    /\ last = NoCall
    /\ state = "Created"
    /\ capacity = 0
    /\ buf = << >>
    /\ stopFlag = FALSE
    /\ loop = "none"
    /\ failures = 0
    /\ owner = "none"
    /\ pushed = << >>
    /\ delivered = NoDelivery
    /\ evicted = {}

\* No context holds the registry's lifecycle lock (stop_stream holds it while
\* it waits for the loop).
LifecycleFree == \A c \in Contexts : pc[c] # "stopping"

Ready(c) == shim[c].constructed /\ pc[c] = "idle"

\* The record of a completed call: what was called and the status the caller
\* saw (STATUS_OK, or the exit code of the exception raised).
Call(op, status) == [NoCall EXCEPT !.op = op, !.status = status]

\* Context c starts another call: what it remembered of its last drain is gone.
Forget(c) ==
    /\ prev' = [prev EXCEPT ![c] = "other"]
    /\ quiet' = [quiet EXCEPT ![c] = FALSE]

\* ------------------------------------------------------- binding: lifecycle
\* BoardShim (board_id, port_name)
BoardShim(c, id) ==
    /\ pc[c] = "idle"
    /\ LET r == BoardShim_init(id) IN
        /\ shim' = IF r.status = STATUS_OK THEN [shim EXCEPT ![c] = r.obj] ELSE shim
        /\ last' = Call("__init__", r.status)
    /\ Forget(c)
    /\ UNCHANGED <<instance, pc, data_size, nativeVars, owner, histVars>>

\* BoardShim.prepare_session
prepare_session(c) ==
    /\ Ready(c)
    /\ LifecycleFree
    /\ \E openOk \in BOOLEAN :
        LET r == NativePrepareSession(state, shim[c].board_id, openOk) IN
        /\ state' = r.state
        /\ owner' = IF r.state # state THEN c ELSE owner
        /\ last' = [Call("prepare_session", CheckRes(r.status)) EXCEPT !.by = c]
    /\ instance' = get_instance(instance)
    /\ Forget(c)
    /\ UNCHANGED <<shim, pc, data_size, capacity, buf, stopFlag, loop,
                   failures, histVars>>

\* BoardShim.start_stream (num_samples)
start_stream(c, n) ==
    /\ Ready(c)
    /\ LifecycleFree
    /\ LET res == NativeStartStatus(state) IN
        /\ IF res = STATUS_OK
           THEN /\ state' = "Streaming"
                /\ capacity' = n
                /\ buf' = << >>
                /\ stopFlag' = FALSE
                /\ loop' = "check"
                /\ failures' = 0
                /\ pushed' = << >>
                /\ delivered' = NoDelivery
                /\ evicted' = {}
           ELSE UNCHANGED <<nativeVars, histVars>>
        /\ last' = Call("start_stream", CheckRes(res))
    /\ instance' = get_instance(instance)
    /\ Forget(c)
    /\ UNCHANGED <<shim, pc, data_size, owner>>

\* BoardShim.stop_stream, up to the point where the core has signalled the
\* loop and waits for it; a call outside Streaming fails at once.
stop_stream_call(c) ==
    /\ Ready(c)
    /\ LifecycleFree
    /\ LET res == NativeStopStatus(state) IN
        IF res = STATUS_OK
        THEN /\ stopFlag' = TRUE
             /\ pc' = [pc EXCEPT ![c] = "stopping"]
             /\ UNCHANGED last
        ELSE /\ last' = Call("stop_stream", CheckRes(res))
             /\ UNCHANGED <<stopFlag, pc>>
    /\ instance' = get_instance(instance)
    /\ Forget(c)
    /\ UNCHANGED <<shim, data_size, state, capacity, buf, loop, failures, owner,
                   histVars>>

\* BoardShim.stop_stream returns: the loop has been joined.
stop_stream_return(c) ==
    /\ pc[c] = "stopping"
    /\ Joined(loop)
    /\ state' = IF state = "Streaming" THEN "Stopped" ELSE state
    /\ pc' = [pc EXCEPT ![c] = "idle"]
    /\ last' = Call("stop_stream", CheckRes(STATUS_OK))
    /\ UNCHANGED <<instance, shim, data_size, prev, quiet, capacity, buf, stopFlag,
                   loop, failures, owner, histVars>>

\* BoardShim.release_session
release_session(c) ==
    /\ Ready(c)
    /\ LifecycleFree
    /\ LET res == NativeReleaseStatus(state) IN
        /\ IF res = STATUS_OK
           THEN /\ state' = "Released"
                /\ capacity' = 0
                /\ buf' = << >>
                /\ stopFlag' = FALSE
                /\ loop' = "none"
                /\ failures' = 0
                /\ owner' = "none"
                /\ pushed' = << >>
                /\ delivered' = NoDelivery
                /\ evicted' = {}
           ELSE UNCHANGED <<nativeVars, owner, histVars>>
        /\ last' = Call("release_session", CheckRes(res))
    /\ instance' = get_instance(instance)
    /\ Forget(c)
    /\ UNCHANGED <<shim, pc, data_size>>

\* ------------------------------------------------------------ binding: data
\* BoardShim.get_current_board_data (num_samples); get_immediate_board_data
\* is this call with num_samples = 1.  numpy.zeros refuses a negative size
\* before the core is called.
get_current_board_data(c, n) ==
    /\ Ready(c)
    /\ IF n < 0
       THEN /\ last' = Call("get_current_board_data", VALUE_ERROR)
            /\ UNCHANGED instance
       ELSE LET pl == shim[c].package_length
                data_arr == Zeros(n * pl)
                time_arr == Zeros(n)
                res == NativeDataStatus(state)
                samples == DrainLatest(buf, n)
                current_size == Len(samples)
                d == NativeWriteData(data_arr, samples, pl)
                t == NativeWriteTime(time_arr, samples)
            IN  /\ instance' = get_instance(instance)
                /\ last' =
                     IF CheckRes(res) # STATUS_OK
                     THEN Call("get_current_board_data", CheckRes(res))
                     ELSE [Call("get_current_board_data", STATUS_OK)
                             EXCEPT !.rows = current_size,
                                    !.table = ColumnStack(
                                        Reshape(Slice(d, current_size * pl), current_size, pl),
                                        Slice(t, current_size))]
    /\ Forget(c)
    /\ UNCHANGED <<shim, pc, data_size, nativeVars, owner, histVars>>

\* BoardShim.get_board_data_count, called by the program
get_board_data_count(c) ==
    /\ Ready(c)
    /\ LET res == NativeDataStatus(state) IN
        last' = IF CheckRes(res) # STATUS_OK
                THEN Call("get_board_data_count", CheckRes(res))
                ELSE [Call("get_board_data_count", STATUS_OK)
                        EXCEPT !.count = Len(buf),
                               !.seq = IF prev[c] # "drained" THEN "plain"
                                       ELSE IF quiet[c] THEN "afterQuietDrain"
                                       ELSE "afterDrain"]
    /\ instance' = get_instance(instance)
    /\ Forget(c)
    /\ UNCHANGED <<shim, pc, data_size, nativeVars, owner, histVars>>

\* BoardShim.get_board_data, first native call: data_size = get_board_data_count ()
get_board_data_begin(c) ==
    /\ Ready(c)
    /\ LET res == NativeDataStatus(state) IN
        IF CheckRes(res) # STATUS_OK
        THEN /\ last' = Call("get_board_data", CheckRes(res))
             /\ quiet' = [quiet EXCEPT ![c] = FALSE]
             /\ UNCHANGED <<pc, data_size>>
        ELSE /\ data_size' = [data_size EXCEPT ![c] = Len(buf)]
             /\ pc' = [pc EXCEPT ![c] = "gbd_fetch"]
             /\ quiet' = [quiet EXCEPT ![c] = TRUE]
             /\ UNCHANGED last
    /\ instance' = get_instance(instance)
    /\ prev' = [prev EXCEPT ![c] = "other"]
    /\ UNCHANGED <<shim, nativeVars, owner, histVars>>

\* Rows of `table` whose timestamp is k.
RowsWithTs(table, k) ==
    Cardinality({r \in 1 .. Len(table) : table[r][Len(table[r])] = k})

\* BoardShim.get_board_data, second native call: the core copies out and
\* removes the oldest min (count, retained) samples; the binding returns
\* data_size rows whatever the core copied.
get_board_data_fetch(c) ==
    /\ pc[c] = "gbd_fetch"
    /\ LET pl == shim[c].package_length
           ds == data_size[c]
           time_arr == Zeros(ds)
           data_arr == Zeros(ds * pl)
           res == NativeDataStatus(state)
           k == Min(FetchArg(ds), Len(buf))
           samples == SubSeq(buf, 1, k)
           d == NativeWriteData(data_arr, samples, pl)
           t == NativeWriteTime(time_arr, samples)
           table == ColumnStack(Reshape(d, ds, pl), t)
       IN  IF CheckRes(res) # STATUS_OK
           THEN /\ last' = Call("get_board_data", CheckRes(res))
                /\ prev' = [prev EXCEPT ![c] = "other"]
                /\ quiet' = [quiet EXCEPT ![c] = FALSE]
                /\ UNCHANGED <<buf, delivered>>
           ELSE /\ buf' = SubSeq(buf, k + 1, Len(buf))
                /\ last' = [Call("get_board_data", STATUS_OK)
                              EXCEPT !.rows = ds, !.table = table,
                                     !.dataLen = Len(data_arr), !.timeLen = Len(time_arr)]
                /\ delivered' = [x \in 0 .. MaxPush |-> delivered[x] + RowsWithTs(table, x)]
                /\ prev' = [prev EXCEPT ![c] = "drained"]
                /\ UNCHANGED quiet
    /\ pc' = [pc EXCEPT ![c] = "idle"]
    /\ data_size' = [data_size EXCEPT ![c] = 0]
    /\ UNCHANGED <<instance, shim, state, capacity, stopFlag, loop,
                   failures, owner, pushed, evicted>>

\* ------------------------------------------------------ acquisition loop
\* Top of an iteration: the cooperative stop check, then read_frame.
LoopCheck ==
    /\ loop = "check"
    /\ stopFlag \/ Len(pushed) < MaxPush
    /\ loop' = IF stopFlag THEN "exited" ELSE "inflight"
    /\ UNCHANGED <<pyVars, state, capacity, buf, stopFlag, failures, owner, histVars>>

\* The frame was read and decoded: push it.
LoopPush ==
    /\ loop = "inflight"
    /\ LET s == Len(pushed) + 1
           nb == Push(buf, capacity, s)
       IN  /\ buf' = nb
           /\ pushed' = Append(pushed, s)
           /\ evicted' = evicted \cup {buf[i] : i \in {j \in 1 .. Len(buf) :
                                         \A m \in 1 .. Len(nb) : nb[m] # buf[j]}}
    /\ failures' = 0
    /\ loop' = "check"
    /\ quiet' = [c \in Contexts |-> FALSE]
    /\ UNCHANGED <<instance, shim, pc, data_size, prev, last, state, capacity, stopFlag,
                   owner, delivered>>

\* A transient read or decode failure; past the threshold the session fails.
LoopFail ==
    /\ loop = "inflight"
    /\ failures' = failures + 1
    /\ IF failures + 1 > FailureThreshold
       THEN state' = "Failed" /\ loop' = "exited"
       ELSE loop' = "check" /\ UNCHANGED state
    /\ UNCHANGED <<pyVars, capacity, buf, stopFlag, owner, histVars>>

Next ==
    \/ \E c \in Contexts, id \in BoardIds : BoardShim(c, id)
    \/ \E c \in Contexts : prepare_session(c)
    \/ \E c \in Contexts, n \in 1 .. MaxCap : start_stream(c, n)
    \/ \E c \in Contexts : stop_stream_call(c)
    \/ \E c \in Contexts : stop_stream_return(c)
    \/ \E c \in Contexts : release_session(c)
    \/ \E c \in Contexts, n \in CurrentArgs : get_current_board_data(c, n)
    \/ \E c \in Contexts : get_board_data_count(c)
    \/ \E c \in Contexts : get_board_data_begin(c)
    \/ \E c \in Contexts : get_board_data_fetch(c)
    \/ LoopCheck
    \/ LoopPush
    \/ LoopFail

Spec == Init /\ [][Next]_vars

\* ================================================================ claims

\* The last k elements of a sequence.
LastOf(seq, k) == SubSeq(seq, Len(seq) - k + 1, Len(seq))

\* The table row a caller expects for the k-th sample: its package values,
\* then its timestamp.
RowOf(k) ==
    [j \in 1 .. CYTHON.package_length + 1 |->
        IF j <= CYTHON.package_length THEN PackageValue(k, j) ELSE SampleTs(k)]

RowsOf(samples) == [i \in 1 .. Len(samples) |-> RowOf(samples[i])]

\* No get_board_data has handed out a row in this session.
NoneDrained == \A k \in 0 .. MaxPush : delivered[k] = 0

InBuf(k) == Cardinality({i \in 1 .. Len(buf) : buf[i] = k})

C2_DrainPartition ==
    /\ delivered[0] = 0
    /\ \A k \in 1 .. MaxPush :
        InBuf(k) + delivered[k] + (IF k \in evicted THEN 1 ELSE 0)
            = (IF k <= Len(pushed) THEN 1 ELSE 0)

\* C3: once stop_stream has returned and the session is Stopped, no step
\* pushes a sample: neither the number of pushed samples nor the buffer grows.
C3_NoPushAfterStop ==
    [][state = "Stopped" => Len(pushed') <= Len(pushed) /\ Len(buf') <= Len(buf)]_vars

C3_Witness ==
    /\ state = "Stopped"
    /\ Len(pushed) > 0
    /\ last.op = "get_board_data_count"
    /\ last.count > 0

\* C4: start_stream outside Prepared, stop_stream outside Streaming and
\* release_session outside {Stopped, Prepared, Failed} (a second release)
\* raise InvalidStateError and change nothing in the core.
C4_InvalidState ==
    [][\A c \in Contexts :
        /\ \A n \in 1 .. MaxCap :
            start_stream(c, n) /\ state # "Prepared"
                => last'.status = INVALID_STATE_ERROR /\ UNCHANGED <<nativeVars, owner>>
        /\ stop_stream_call(c) /\ state # "Streaming"
                => /\ last'.op = "stop_stream"
                   /\ last'.status = INVALID_STATE_ERROR
                   /\ UNCHANGED <<nativeVars, owner>>
        /\ release_session(c) /\ state \notin ReleasableStates
                => last'.status = INVALID_STATE_ERROR /\ UNCHANGED <<nativeVars, owner>>
      ]_vars

C4_Witness ==
    /\ last.op = "release_session"
    /\ last.status = INVALID_STATE_ERROR
    /\ state = "Released"

\* C5: prepare_session while a session is active raises InvalidStateError
\* and leaves the session, its state and its buffer as they were, whichever
\* BoardShim object makes the call.
C5_SingleActiveSession ==
    [][\A c \in Contexts :
        prepare_session(c) /\ state \in ActiveStates
            => /\ last'.status = INVALID_STATE_ERROR
               /\ UNCHANGED <<nativeVars, owner, histVars>>
      ]_vars

C5_Witness ==
    /\ last.op = "prepare_session"
    /\ last.status = INVALID_STATE_ERROR
    /\ owner # "none"
    /\ last.by # owner
    /\ state = "Streaming"
    /\ Len(buf) > 0

\* C6: constructing a BoardShim for a board id outside the known table
\* raises UNSUPPORTED_BOARD_ERROR, creates no object, and touches neither the
\* core nor the library; no object with an unknown id ever exists.
C6_UnknownBoard ==
    [][\A c \in Contexts, id \in BoardIds :
        BoardShim(c, id) /\ id \notin KnownBoards
            => /\ last'.status = UNSUPPORTED_BOARD_ERROR
               /\ shim' = shim
               /\ \A d \in Contexts :
                    shim'[d].constructed => shim'[d].board_id \in KnownBoards
               /\ UNCHANGED <<instance, nativeVars, owner, histVars>>
      ]_vars

C6_Witness ==
    /\ last.op = "__init__"
    /\ last.status = UNSUPPORTED_BOARD_ERROR
    /\ state \in ActiveStates

\* C7: in Streaming and Stopped, get_current_board_data (n) returns without
\* error the last min(n, count) samples oldest first, nothing for n <= 0 or
\* an empty buffer, and leaves the buffer unchanged.
C7_DrainLatest ==
    [][\A c \in Contexts, n \in CurrentArgs :
        get_current_board_data(c, n) /\ state \in DataStates
            => /\ last'.status = STATUS_OK
               /\ last'.table =
                    (IF n <= 0 THEN << >>
                     ELSE RowsOf(LastOf(buf, Min(n, Len(buf)))))
               /\ buf' = buf
      ]_vars

\* C8 as stated: a get_board_data_count right after the same context's
\* get_board_data returns 0.
C8_DrainThenCountZero ==
    (last.op = "get_board_data_count" /\ last.status = STATUS_OK /\ last.seq # "plain")
        => last.count = 0

\* C8 amended: a get_board_data_count right after the same context's
\* get_board_data returns 0 if no sample was pushed since that get_board_data
\* began.
C8_QuietDrainThenCountZero ==
    (last.op = "get_board_data_count" /\ last.status = STATUS_OK
        /\ last.seq = "afterQuietDrain")
        => last.count = 0

C8_Witness ==
    /\ last.op = "get_board_data_count"
    /\ last.status = STATUS_OK
    /\ last.seq = "afterQuietDrain"
    /\ last.count = 0
    /\ Len(pushed) > 0
    /\ \E k \in 1 .. MaxPush : delivered[k] > 0

\* The shape of a returned table: `width` values per sample, then the timestamp.
TableShape(width) ==
    (last.op \in {"get_board_data", "get_current_board_data"} /\ last.status = STATUS_OK)
        => /\ Len(last.table) = last.rows
           /\ \A r \in 1 .. Len(last.table) : Len(last.table[r]) = width + 1
           /\ last.op = "get_board_data"
                => last.dataLen = last.rows * width /\ last.timeLen = last.rows

C10_FetchRowsReal ==
    [][\A c \in Contexts :
        get_board_data_fetch(c) /\ last'.op = "get_board_data" /\ last'.status = STATUS_OK
            => /\ \A r \in 1 .. Len(last'.table) :
                    \E k \in 1 .. Len(pushed) : last'.table[r] = RowOf(k)
               /\ Len(last'.table) = Len(buf) - Len(buf')
      ]_vars

====
